---- MODULE Spec2Model ----
(***************************************************************************)
(* Badminton tournament backend (Django / Django REST framework).          *)
(*                                                                         *)
(* The model covers the registrations app: the Event and Registration      *)
(* tables, the clock, and the request handlers that classify events by     *)
(* lifecycle and scope registrations to an event's date window.            *)
(*                                                                         *)
(* Dates are day numbers.  An instant (a timezone-aware datetime) is       *)
(* day * TicksPerDay + tick, the tick being the position of the time of    *)
(* day in TimesOfDay; instants are taken in the configured timezone        *)
(* (settings.py is not part of the sources, the offset is taken as zero).  *)
(* An optional (null=True) column is a sequence of length 0 or 1.          *)
(***************************************************************************)
EXTENDS Integers, Sequences, FiniteSets, TLC

\* Bounds of the model.
MaxDay == 2
MaxEvents == 2
MaxWindowEvents == 1
MaxRegs == 2
MaxAge == 1
MaxRequests == 2
MaxAccounts == 2
MaxResults == 2
MaxImageOrder == 2

\* The times of day the model distinguishes: datetime.time.min and
\* datetime.time.max, the first and the last instant of a day.
TimesOfDay == <<"00:00:00.000000", "23:59:59.999999">>
TicksPerDay == Len(TimesOfDay)
LastTick == TicksPerDay - 1

Days == 0..MaxDay
\* The clock runs one day past the last date an event can carry, so that
\* every event can have ended.
MaxInstant == (MaxDay + 1) * TicksPerDay + LastTick

None == <<>>
Some(x) == <<x>>
OptDays == {None} \cup {Some(d) : d \in Days}

VARIABLES
    events,         \* Event table: id -> row
    registrations,  \* Registration table: id -> row
    nextId,         \* AUTOINCREMENT counters of the two tables
    now,            \* timezone.now(), an instant
    response,       \* the response to the request just handled; none once the
                    \* clock has moved on
    inflight,       \* the handlers running step by step: request -> its
                    \* position and local variables
    accounts,       \* AdminAccount table: id -> row
    event_results,  \* EventResult table: id -> row
    event_result_images  \* EventResultImage table: id -> row

vars == <<events, registrations, nextId, now, response, inflight, accounts,
          event_results, event_result_images>>

----------------------------------------------------------------------------
\* Python and SQL helpers

\* bool(x) of an optional date: a datetime.date is always truthy, None is not.
Truthy(opt) == opt # None

\* datetime.date() of an instant.
DateOf(instant) == instant \div TicksPerDay

\* datetime.time() of an instant.
TimeOf(instant) == TimesOfDay[(instant % TicksPerDay) + 1]

\* today = timezone.now().date()
Today == DateOf(now)

\* The injective sequences over S: every order the rows of S can come in.
Orderings(S) ==
    {s \in [1..Cardinality(S) -> S] : \A i, j \in 1..Cardinality(S) : s[i] = s[j] => i = j}

----------------------------------------------------------------------------
\* models.py

\* Event.is_ended with the comparison reversed at the boundary.
is_ended_inclusive(event) ==
    IF Truthy(event.event_to)
    THEN event.event_to[1] <= Today
    ELSE event.event_to = None /\ event.event_from <= Today

\* Event.is_ended
is_ended(event) ==
    IF Truthy(event.event_to)
    THEN event.event_to[1] < Today
    ELSE event.event_to = None /\ event.event_from < Today

\* Event.is_upcoming with a rule of its own that forgets events without event_to.
is_upcoming_own_rule(event) ==
    Truthy(event.event_to) /\ event.event_to[1] >= Today

\* Event.is_upcoming
is_upcoming(event) == ~is_ended(event)

----------------------------------------------------------------------------
\* Responses

NoParam == [kind |-> "absent", n |-> 0]

NoResponse ==
    [op |-> "none", status |-> "ok", event_id |-> NoParam,
     upcoming |-> FALSE, completed |-> FALSE,
     rows |-> <<>>, dates |-> <<>>, bounds |-> <<>>,
     id |-> 0, ended |-> FALSE, is_upcoming |-> FALSE,
     csv |-> <<>>, body |-> "", size |-> 0,
     count |-> 0, deleted_event_ids |-> <<>>, delete_registrations |-> FALSE,
     filename |-> "", request |-> 0, file |-> None,
     username |-> "", password |-> "", error |-> "", token |-> <<>>,
     files |-> {}]

\* The local variables of a request handler that is not running.
IdleRequest ==
    [pc |-> "idle", op |-> "none", event_id |-> NoParam, status |-> "ok",
     scoped |-> FALSE, dates |-> <<>>, bounds |-> <<>>, filename |-> "",
     today |-> 0, event_count |-> 0, event_ids |-> <<>>,
     delete_registrations |-> FALSE]

Init ==
    /\ events = <<>>
    /\ registrations = <<>>
    /\ nextId = [event |-> 1, registration |-> 1, account |-> 1,
                 event_result |-> 1, event_result_image |-> 1]
    /\ now = 0
    /\ response = NoResponse
    /\ inflight = [r \in 1..MaxRequests |-> IdleRequest]
    /\ accounts = <<>>
    /\ event_results = <<>>
    /\ event_result_images = <<>>

----------------------------------------------------------------------------
\* Writes: the ModelViewSet create handlers and the clock

\* An event name of two words, stored as "State Open".
StateOpen == <<"State", "Open">>

\* POST /api/events/ (EventViewSet.create through EventSerializer): the
\* serializer validates each date on its own and no relation between them;
\* created_at is auto_now_add.
CreateEvent(event_name, registration_from, registration_to, event_from, event_to) ==
    /\ nextId.event <= MaxEvents
    /\ events' = events @@ (nextId.event :>
            [event_name        |-> event_name,
             registration_from |-> registration_from,
             registration_to   |-> registration_to,
             event_from        |-> event_from,
             event_to          |-> event_to,
             created_at        |-> now])
    /\ nextId' = [nextId EXCEPT !.event = @ + 1]
    /\ response' = [NoResponse EXCEPT !.op = "create_event", !.id = nextId.event]
    /\ UNCHANGED <<registrations, now, inflight, accounts, event_results,
                 event_result_images>>

\* PATCH /api/events/<id>/ carrying the four dates (EventViewSet
\* partial_update through EventSerializer): 404 when no such row; otherwise
\* the dates are overwritten as sent, with the same per-field validation as
\* on create; id and created_at are read-only.
UpdateEvent(id, registration_from, registration_to, event_from, event_to) ==
    /\ IF id \in DOMAIN events
       THEN /\ events' = [events EXCEPT ![id] =
                    [event_name        |-> @.event_name,
                     registration_from |-> registration_from,
                     registration_to   |-> registration_to,
                     event_from        |-> event_from,
                     event_to          |-> event_to,
                     created_at        |-> @.created_at]]
            /\ response' = [NoResponse EXCEPT !.op = "update_event", !.id = id]
       ELSE /\ events' = events
            /\ response' = [NoResponse EXCEPT !.op = "update_event",
                                              !.status = "404", !.id = id]
    /\ UNCHANGED <<registrations, nextId, now, inflight, accounts, event_results,
                 event_result_images>>

\* DELETE /api/events/<id>/ (EventViewSet.destroy): 404 when no such row,
\* otherwise the row is deleted; its id is never given out again.
DeleteEvent(id) ==
    /\ IF id \in DOMAIN events
       THEN /\ events' = [e \in DOMAIN events \ {id} |-> events[e]]
            /\ response' = [NoResponse EXCEPT !.op = "delete_event",
                                              !.status = "204", !.id = id]
       ELSE /\ events' = events
            /\ response' = [NoResponse EXCEPT !.op = "delete_event",
                                              !.status = "404", !.id = id]
    /\ UNCHANGED <<registrations, nextId, now, inflight, accounts, event_results,
                   event_result_images>>

\* Contents of an uploaded file: an empty file and an image.
Files == {"", "JPEG"}

\* request.FILES with or without a 'document' entry.
UploadParams == {None} \cup {Some(f) : f \in Files}

\* A submission that fills in only the required name: the optional columns
\* take their defaults (NULL for age and dob, '' for the blank=True texts).
BlankRegistration ==
    [name |-> "Asha", age |-> None, dob |-> None, gender |-> "", state |-> "",
     district |-> "", level |-> "", email |-> "", phone_no |-> "",
     address |-> ""]

\* A submission that fills in every field.
FullRegistration(age) ==
    [name |-> "Ravi", age |-> Some(age), dob |-> Some(0), gender |-> "male",
     state |-> "Kerala", district |-> "Kochi", level |-> "State",
     email |-> "ravi@example.com", phone_no |-> "9800000000",
     address |-> "12 MG Road"]

RegistrationInputs == {BlankRegistration} \cup {FullRegistration(a) : a \in 0..MaxAge}

\* POST /api/registrations/ (RegistrationViewSet.create through
\* RegistrationSerializer.create): the row is created from the validated
\* fields with created_at auto_now_add, and the uploaded bytes are stored
\* only when they are non-empty (if document_binary).
CreateRegistration(data, file) ==
    /\ nextId.registration <= MaxRegs
    /\ registrations' = registrations @@ (nextId.registration :>
            [name       |-> data.name,
             age        |-> data.age,
             dob        |-> data.dob,
             gender     |-> data.gender,
             state      |-> data.state,
             district   |-> data.district,
             level      |-> data.level,
             email      |-> data.email,
             phone_no   |-> data.phone_no,
             address    |-> data.address,
             document   |-> IF file # None /\ file[1] # "" THEN file ELSE None,
             created_at |-> now])
    /\ nextId' = [nextId EXCEPT !.registration = @ + 1]
    /\ response' = [NoResponse EXCEPT !.op = "create_registration",
                                      !.id = nextId.registration,
                                      !.file = file]
    /\ UNCHANGED <<events, now, inflight, accounts, event_results,
                 event_result_images>>

\* An update that stores the file under the test create uses (if
\* document_binary), so that an empty file is ignored.
UpdateRegistration_truthy(id, file) ==
    /\ IF id \in DOMAIN registrations
       THEN /\ registrations' = [registrations EXCEPT ![id].document =
                                     IF file # None /\ file[1] # "" THEN file ELSE @]
            /\ response' = [NoResponse EXCEPT !.op = "update_registration",
                                              !.id = id, !.file = file]
       ELSE /\ registrations' = registrations
            /\ response' = [NoResponse EXCEPT !.op = "update_registration",
                                              !.status = "404", !.id = id,
                                              !.file = file]
    /\ UNCHANGED <<events, nextId, now, inflight, accounts, event_results,
                 event_result_images>>

\* PATCH /api/registrations/<id>/ carrying at most a file
\* (RegistrationSerializer.update): 404 when no such row; the document is
\* overwritten whenever a file was sent (document_binary is not None), an
\* empty one included.
UpdateRegistration(id, file) ==
    /\ IF id \in DOMAIN registrations
       THEN /\ registrations' = [registrations EXCEPT ![id].document =
                                     IF file # None THEN file ELSE @]
            /\ response' = [NoResponse EXCEPT !.op = "update_registration",
                                              !.id = id, !.file = file]
       ELSE /\ registrations' = registrations
            /\ response' = [NoResponse EXCEPT !.op = "update_registration",
                                              !.status = "404", !.id = id,
                                              !.file = file]
    /\ UNCHANGED <<events, nextId, now, inflight, accounts, event_results,
                 event_result_images>>

\* Time passes: timezone.now() moves to a later instant.
AdvanceClock(instant) ==
    /\ instant > now
    /\ instant <= MaxInstant
    /\ now' = instant
    /\ response' = NoResponse
    /\ UNCHANGED <<events, registrations, nextId, inflight, accounts, event_results,
                 event_result_images>>

----------------------------------------------------------------------------
\* views.py: registrations scoped to an event's window

\* The values of the event_id query parameter: absent (or empty, which the
\* handlers treat alike: "if event_id"), a number, or text that is no number.
EventIdParams ==
    {NoParam} \cup {[kind |-> "int", n |-> i] : i \in 1..(MaxWindowEvents + 1)}
              \cup {[kind |-> "text", n |-> 0]}

\* Event.objects.get(id=event_id): the row, Event.DoesNotExist, or the
\* ValueError the id field raises for text that is no number.
EventLookup(event_id) ==
    IF event_id.kind = "text" THEN "ValueError"
    ELSE IF event_id.n \in DOMAIN events THEN "found"
    ELSE "DoesNotExist"

\* start_date = event.registration_from
start_date(event) == event.registration_from

\* end_date with event_to ignored.
end_date_event_from(event) == event.event_from

\* end_date = event.event_to if event.event_to else event.event_from
end_date(event) ==
    IF Truthy(event.event_to) THEN event.event_to[1] ELSE event.event_from

\* timezone.make_aware(datetime.combine(start_date, dt_time.min))
start_datetime(date) == date * TicksPerDay

\* end_datetime taken at the start of the day, as start_datetime is.
end_datetime_day_start(date) == date * TicksPerDay

\* timezone.make_aware(datetime.combine(end_date, dt_time.max))
end_datetime(date) == date * TicksPerDay + LastTick

\* queryset.filter(created_at__gte=start_datetime, created_at__lte=end_datetime)
FilterCreatedAt(ids, from, to) ==
    {r \in ids : registrations[r].created_at >= from /\ registrations[r].created_at <= to}

AllRegistrations ==
    [status |-> "ok", ids |-> DOMAIN registrations, dates |-> <<>>, bounds |-> <<>>]

ServerError ==
    [status |-> "error", ids |-> {}, dates |-> <<>>, bounds |-> <<>>]

\* The scoping both handlers apply once the event is found.
ScopedRegistrations(event) ==
    LET start == start_date(event)
        end   == end_date(event)
        from  == start_datetime(start)
        to    == end_datetime(end)
    IN  [status |-> "ok",
         ids    |-> FilterCreatedAt(DOMAIN registrations, from, to),
         dates  |-> <<start, end>>,
         bounds |-> <<from, to>>]

\* RegistrationViewSet.get_queryset
RegistrationViewSet_get_queryset(event_id) ==
    IF event_id.kind = "absent" THEN AllRegistrations
    ELSE CASE EventLookup(event_id) = "found" -> ScopedRegistrations(events[event_id.n])
           [] EventLookup(event_id) = "DoesNotExist" -> AllRegistrations
           [] OTHER -> ServerError

\* The export's rows with the event filter left out.
ExportRegistrationsCsvView_rows_unfiltered(event_id) ==
    IF event_id.kind = "text" THEN ServerError ELSE AllRegistrations

\* ExportRegistrationsCsvView.get, the rows it selects (the same lookup and
\* filter, written out a second time in the source).
ExportRegistrationsCsvView_rows(event_id) ==
    IF event_id.kind = "absent" THEN AllRegistrations
    ELSE CASE EventLookup(event_id) = "found" -> ScopedRegistrations(events[event_id.n])
           [] EventLookup(event_id) = "DoesNotExist" -> AllRegistrations
           [] OTHER -> ServerError

\* The first row only of ORDER BY created_at DESC, a page of one row: which
\* of several rows of equal created_at it holds is up to the database.
NewestFirst_first_page(ids) ==
    {IF Len(s) = 0 THEN s ELSE <<s[1]>> :
        s \in {t \in Orderings(ids) :
                  \A i, j \in 1..Cardinality(ids) :
                      i < j => registrations[t[i]].created_at
                                 >= registrations[t[j]].created_at}}

\* ORDER BY created_at DESC: every order of the rows the database may return,
\* rows of equal created_at in any order.
NewestFirst(ids) ==
    {s \in Orderings(ids) :
        \A i, j \in 1..Cardinality(ids) :
            i < j => registrations[s[i]].created_at >= registrations[s[j]].created_at}

\* GET /api/registrations/?event_id=X (list over get_queryset; the model's
\* Meta.ordering is -created_at)
ListRegistrations(event_id) ==
    LET q == RegistrationViewSet_get_queryset(event_id) IN
    /\ \E rows \in NewestFirst(q.ids) :
         response' = [NoResponse EXCEPT !.op = "list_registrations",
                                        !.status = q.status,
                                        !.event_id = event_id,
                                        !.rows = rows,
                                        !.dates = q.dates,
                                        !.bounds = q.bounds]
    /\ UNCHANGED <<events, registrations, nextId, now, inflight, accounts, event_results,
                 event_result_images>>

\* The header row written before the data rows.
CsvHeader ==
    <<"ID", "Name", "Age", "Date of Birth", "Gender", "State", "District",
      "Level", "Email", "Phone Number", "Address", "Document", "Created At">>

\* strftime('%Y-%m-%d') of a day; day 0 is taken to be 2025-01-01.
strftime_Ymd(day) ==
    "2025-01-" \o (IF day + 1 < 10 THEN "0" \o ToString(day + 1)
                                   ELSE ToString(day + 1))

\* strftime('%H:%M:%S') of the times of day in TimesOfDay: the microseconds
\* are dropped.
strftime_HMS(instant) == <<"00:00:00", "23:59:59">>[(instant % TicksPerDay) + 1]

\* reg.age or '': NULL and 0 are both falsy.
AgeCell(reg) ==
    IF reg.age # None /\ reg.age[1] # 0 THEN ToString(reg.age[1]) ELSE ""

\* The date of birth written with str(), which prints an unset one as None.
DobCell_str(reg) == IF reg.dob # None THEN strftime_Ymd(reg.dob[1]) ELSE "None"

\* reg.dob.strftime('%Y-%m-%d') if reg.dob else ''
DobCell(reg) == IF reg.dob # None THEN strftime_Ymd(reg.dob[1]) ELSE ""

\* The flag testing only that the column is not NULL.
DocumentCell_not_null(reg) == IF reg.document # None THEN "Yes" ELSE "No"

\* 'Yes' if reg.document else 'No': NULL and empty bytes are both falsy.
DocumentCell(reg) ==
    IF reg.document # None /\ reg.document[1] # "" THEN "Yes" ELSE "No"

\* reg.created_at.strftime('%Y-%m-%d %H:%M:%S'); created_at is never NULL.
CreatedAtCell(reg) ==
    strftime_Ymd(DateOf(reg.created_at)) \o " " \o strftime_HMS(reg.created_at)

\* One data row; x or '' leaves a text column as it is, '' included.
CsvRow(id) ==
    LET reg == registrations[id] IN
    <<ToString(id), reg.name, AgeCell(reg), DobCell(reg), reg.gender,
      reg.state, reg.district, reg.level, reg.email, reg.phone_no,
      reg.address, DocumentCell(reg), CreatedAtCell(reg)>>

\* The rows handed to csv.writer, header first.
CsvTable(rows) == <<CsvHeader>> \o [i \in 1..Len(rows) |-> CsvRow(rows[i])]

RECURSIVE JoinWords(_, _)
\* The words of a name joined by a separator.
JoinWords(words, separator) ==
    IF Len(words) = 0 THEN ""
    ELSE IF Len(words) = 1 THEN words[1]
    ELSE words[1] \o separator \o JoinWords(Tail(words), separator)

\* The query parameter as the text that was sent.
EventIdText(event_id) == IF event_id.kind = "int" THEN ToString(event_id.n) ELSE "abc"

\* The download name: the second Event.objects.get(id=event_id) and
\* event.event_name.replace(' ', '_'), or the plain name when there is no
\* event_id or no such event.
ExportFilename(event_id) ==
    IF event_id.kind # "absent" /\ EventLookup(event_id) = "found"
    THEN "registrations_" \o JoinWords(events[event_id.n].event_name, "_")
            \o "_" \o EventIdText(event_id) \o ".csv"
    ELSE "registrations.csv"

\* GET /api/registrations/export/csv/?event_id=X: the header, then one data
\* row per registration after order_by('-created_at'); a request that fails
\* writes nothing.
ExportRegistrationsCsv(event_id) ==
    LET q == ExportRegistrationsCsvView_rows(event_id) IN
    /\ \E rows \in NewestFirst(q.ids) :
         response' = [NoResponse EXCEPT !.op = "export_csv",
                                        !.status = q.status,
                                        !.event_id = event_id,
                                        !.rows = rows,
                                        !.csv = IF q.status = "error"
                                                THEN <<>> ELSE CsvTable(rows),
                                        !.filename = IF q.status = "error"
                                                     THEN "" ELSE ExportFilename(event_id),
                                        !.dates = q.dates,
                                        !.bounds = q.bounds]
    /\ UNCHANGED <<events, registrations, nextId, now, inflight, accounts, event_results,
                 event_result_images>>

----------------------------------------------------------------------------
\* views.py: the listing and the export handled query by query, so that
\* several requests can be in progress at once

AllIdle == \A r \in 1..MaxRequests : inflight[r].pc = "idle"

\* A request reaches its handler.
StartRequest(r, op, event_id) ==
    /\ inflight[r].pc = "idle"
    /\ inflight' = [inflight EXCEPT ![r] =
                       [IdleRequest EXCEPT !.pc = "lookup", !.op = op,
                                           !.event_id = event_id]]
    /\ UNCHANGED <<events, registrations, nextId, now, response, accounts, event_results,
                 event_result_images>>

\* The first query: Event.objects.get(id=event_id) and the window computed
\* from the row, kept in the handler's local queryset, which is not yet
\* evaluated. A lookup that raises ends the request.
LookupStep(r) ==
    LET req == inflight[r]
        q   == IF req.op = "export_csv"
               THEN ExportRegistrationsCsvView_rows(req.event_id)
               ELSE RegistrationViewSet_get_queryset(req.event_id)
    IN  /\ req.pc = "lookup"
        /\ IF q.status = "error"
           THEN /\ response' = [NoResponse EXCEPT !.op = req.op,
                                                  !.status = q.status,
                                                  !.event_id = req.event_id,
                                                  !.request = r]
                /\ inflight' = [inflight EXCEPT ![r] = IdleRequest]
           ELSE /\ response' = response
                /\ inflight' = [inflight EXCEPT ![r] =
                        [req EXCEPT !.pc = IF req.op = "export_csv"
                                           THEN "filename" ELSE "rows",
                                    !.status = q.status,
                                    !.scoped = (q.bounds # <<>>),
                                    !.dates = q.dates,
                                    !.bounds = q.bounds]]
        /\ UNCHANGED <<events, registrations, nextId, now, accounts, event_results,
                 event_result_images>>

\* The export's second query: the event looked up again for the file name.
FilenameStep(r) ==
    /\ inflight[r].pc = "filename"
    /\ inflight' = [inflight EXCEPT ![r].pc = "rows",
                                    ![r].filename = ExportFilename(inflight[r].event_id)]
    /\ UNCHANGED <<events, registrations, nextId, now, response, accounts, event_results,
                 event_result_images>>

\* A window kept on the view class, where the request that looked its event
\* up last overwrites it for every request in progress.
RequestFilter_shared(r) ==
    LET others == {o \in 1..MaxRequests \ {r} : inflight[o].pc \in {"filename", "rows"}}
        holder == IF others = {} THEN r ELSE CHOOSE o \in others : TRUE
    IN  [scoped |-> inflight[holder].scoped, bounds |-> inflight[holder].bounds]

\* The handler's local queryset: its own filter.
RequestFilter(r) == [scoped |-> inflight[r].scoped, bounds |-> inflight[r].bounds]

\* The last query: the queryset is evaluated when the rows are iterated, and
\* the response is returned.
RowsStep(r) ==
    LET req    == inflight[r]
        filter == RequestFilter(r)
        ids    == IF filter.scoped
                  THEN FilterCreatedAt(DOMAIN registrations,
                                       filter.bounds[1], filter.bounds[2])
                  ELSE DOMAIN registrations
    IN  /\ req.pc = "rows"
        /\ \E rows \in NewestFirst(ids) :
              response' = [NoResponse EXCEPT
                              !.op = req.op,
                              !.status = req.status,
                              !.event_id = req.event_id,
                              !.rows = rows,
                              !.dates = req.dates,
                              !.bounds = req.bounds,
                              !.csv = IF req.op = "export_csv"
                                      THEN CsvTable(rows) ELSE <<>>,
                              !.filename = req.filename,
                              !.request = r]
        /\ inflight' = [inflight EXCEPT ![r] = IdleRequest]
        /\ UNCHANGED <<events, registrations, nextId, now, accounts, event_results,
                 event_result_images>>

----------------------------------------------------------------------------
\* models.py, views.py: admin accounts and login

Usernames == {"admin", "clerk"}
RawPasswords == {"s3cret", "letmein"}

\* The salts make_password may draw.
Salts == {"salt1", "salt2"}

\* make_password(raw_password): the algorithm, a fresh salt and the digest of
\* salt and password, the digest taken to be free of collisions.
make_password(raw_password, salt) ==
    [algorithm |-> "pbkdf2_sha256", salt |-> salt, hash |-> <<salt, raw_password>>]

\* check_password(raw_password, self.password): the digest recomputed with
\* the stored salt; no setter is passed, so nothing is rehashed or saved.
check_password(raw_password, encoded) ==
    encoded.hash = <<encoded.salt, raw_password>>

\* AdminAccount(username=...).set_password(raw_password) for a new account:
\* the row is saved with the hashed password; username is unique.
CreateAdminAccount(username, raw_password, salt) ==
    /\ nextId.account <= MaxAccounts
    /\ \A a \in DOMAIN accounts : accounts[a].username # username
    /\ accounts' = accounts @@ (nextId.account :>
            [username   |-> username,
             password   |-> make_password(raw_password, salt),
             created_at |-> now])
    /\ nextId' = [nextId EXCEPT !.account = @ + 1]
    /\ response' = [NoResponse EXCEPT !.op = "create_account", !.id = nextId.account]
    /\ UNCHANGED <<events, registrations, now, inflight, event_results,
                   event_result_images>>

\* AdminAccount.set_password on a stored account: the hash is replaced.
SetPassword(id, raw_password, salt) ==
    /\ id \in DOMAIN accounts
    /\ accounts' = [accounts EXCEPT ![id].password = make_password(raw_password, salt)]
    /\ response' = [NoResponse EXCEPT !.op = "set_password", !.id = id]
    /\ UNCHANGED <<events, registrations, nextId, now, inflight, event_results,
                   event_result_images>>

\* The credentials a login request may carry; LoginSerializer rejects a blank
\* field.
LoginUsernames == Usernames \cup {""}
LoginPasswords == RawPasswords \cup {""}

\* A login that tells an unknown username from a wrong password.
Login_distinct_errors(username, password) ==
    LET matching == {a \in DOMAIN accounts : accounts[a].username = username}
        request  == [NoResponse EXCEPT !.op = "login", !.username = username,
                                       !.password = password]
    IN  /\ response' =
              IF username = "" \/ password = ""
              THEN [request EXCEPT !.status = "400", !.error = "validation"]
              ELSE IF matching = {}
              THEN [request EXCEPT !.status = "404", !.error = "Unknown user"]
              ELSE LET admin == CHOOSE a \in matching : TRUE IN
                   IF ~check_password(password, accounts[admin].password)
                   THEN [request EXCEPT !.status = "400",
                                        !.error = "Invalid credentials"]
                   ELSE [request EXCEPT !.status = "200", !.token = <<admin, now>>]
        /\ UNCHANGED <<events, registrations, nextId, now, inflight, accounts,
                       event_results, event_result_images>>

\* POST /api/auth/login/ (LoginView.post): the serializer rejects a blank
\* field; an unknown username and a wrong password are answered alike;
\* otherwise signing.dumps({"admin_id": admin.id}), which is timestamped.
Login(username, password) ==
    LET matching == {a \in DOMAIN accounts : accounts[a].username = username}
        request  == [NoResponse EXCEPT !.op = "login", !.username = username,
                                       !.password = password]
    IN  /\ response' =
              IF username = "" \/ password = ""
              THEN [request EXCEPT !.status = "400", !.error = "validation"]
              ELSE IF matching = {}
              THEN [request EXCEPT !.status = "400",
                                   !.error = "Invalid credentials"]
              ELSE LET admin == CHOOSE a \in matching : TRUE IN
                   IF ~check_password(password, accounts[admin].password)
                   THEN [request EXCEPT !.status = "400",
                                        !.error = "Invalid credentials"]
                   ELSE [request EXCEPT !.status = "200", !.token = <<admin, now>>]
        /\ UNCHANGED <<events, registrations, nextId, now, inflight, accounts,
                       event_results, event_result_images>>

----------------------------------------------------------------------------
\* serializers.py: event results and their images

\* The keys request.FILES may hold, each as its parts between underscores:
\* image_1, image_2, ..., image_abc and poster.
UploadKeys ==
    {<<"image", ToString(n)>> : n \in 1..MaxImageOrder}
        \cup {<<"image", "abc">>, <<"poster">>}

\* key.startswith('image_')
IsImageKey(key) == Len(key) >= 2 /\ key[1] = "image"

\* int(key.split('_')[1]): the number the text spells, or nothing where
\* Python raises ValueError.
ParseInt(text) ==
    IF \E n \in 0..MaxImageOrder : ToString(n) = text
    THEN Some(CHOOSE n \in 0..MaxImageOrder : ToString(n) = text)
    ELSE None

\* The validated fields of an event result.
SampleResult == [event_name |-> StateOpen, event_date |-> 0, winner |-> "Ravi"]

\* POST /api/event-results/ (EventResultSerializer.create): the EventResult
\* row is created and committed first (no transaction is opened in the
\* source); then the image_ keys are parsed, and a suffix that is no integer
\* raises ValueError before any image is stored; otherwise one
\* EventResultImage is created per key in ascending index.
CreateEventResult(data, files) ==
    LET id         == nextId.event_result
        image_keys == {k \in files : IsImageKey(k)}
        raises     == \E k \in image_keys : ParseInt(k[2]) = None
        index(k)   == ParseInt(k[2])[1]
        rank(k)    == Cardinality({j \in image_keys : index(j) < index(k)})
    IN  /\ id <= MaxResults
        /\ event_results' = event_results @@ (id :>
                [event_name |-> data.event_name,
                 event_date |-> data.event_date,
                 winner     |-> data.winner,
                 created_at |-> now,
                 updated_at |-> now])
        /\ IF raises
           THEN /\ event_result_images' = event_result_images
                /\ nextId' = [nextId EXCEPT !.event_result = @ + 1]
                /\ response' = [NoResponse EXCEPT !.op = "create_event_result",
                                                  !.status = "error",
                                                  !.files = files]
           ELSE /\ event_result_images' = event_result_images @@
                       [i \in {nextId.event_result_image + rank(k) : k \in image_keys} |->
                           LET k == CHOOSE j \in image_keys :
                                       nextId.event_result_image + rank(j) = i
                           IN  [event_result |-> id,
                                image        |-> "JPEG",
                                image_order  |-> index(k),
                                created_at   |-> now]]
                /\ nextId' = [nextId EXCEPT
                                 !.event_result = @ + 1,
                                 !.event_result_image = @ + Cardinality(image_keys)]
                /\ response' = [NoResponse EXCEPT !.op = "create_event_result",
                                                  !.status = "201",
                                                  !.id = id,
                                                  !.files = files]
        /\ UNCHANGED <<events, registrations, now, inflight, accounts>>

\* DELETE /api/event-results/<id>/ (EventResultViewSet.destroy): 404 when no
\* such row; otherwise the row goes and, by on_delete=CASCADE, its images.
DeleteEventResult(id) ==
    /\ IF id \in DOMAIN event_results
       THEN /\ event_results' = [i \in DOMAIN event_results \ {id} |-> event_results[i]]
            /\ event_result_images' =
                  [i \in {j \in DOMAIN event_result_images :
                             event_result_images[j].event_result # id}
                     |-> event_result_images[i]]
            /\ response' = [NoResponse EXCEPT !.op = "delete_event_result",
                                              !.status = "204", !.id = id]
       ELSE /\ UNCHANGED <<event_results, event_result_images>>
            /\ response' = [NoResponse EXCEPT !.op = "delete_event_result",
                                              !.status = "404", !.id = id]
    /\ UNCHANGED <<events, registrations, nextId, now, inflight, accounts>>

----------------------------------------------------------------------------
\* views.py: the stored document of a registration

\* not registration.document: NULL and empty bytes are both falsy.
NoDocument(reg) == reg.document = None \/ reg.document[1] = ""

\* GET /api/registrations/<pk>/download-image/: 404 when the registration
\* does not exist or holds no document, otherwise the stored bytes.
DownloadImage(pk) ==
    /\ response' =
          IF pk \notin DOMAIN registrations \/ NoDocument(registrations[pk])
          THEN [NoResponse EXCEPT !.op = "download_image", !.status = "404",
                                  !.id = pk]
          ELSE [NoResponse EXCEPT !.op = "download_image", !.id = pk,
                                  !.body = registrations[pk].document[1]]
    /\ UNCHANGED <<events, registrations, nextId, now, inflight, accounts, event_results,
                 event_result_images>>

\* A delete that clears the stored document.
DeleteImageFile_hard(pk) ==
    /\ response' =
          IF pk \notin DOMAIN registrations \/ NoDocument(registrations[pk])
          THEN [NoResponse EXCEPT !.op = "delete_image_file", !.status = "404",
                                  !.id = pk]
          ELSE [NoResponse EXCEPT !.op = "delete_image_file", !.id = pk,
                                  !.size = Len(registrations[pk].document[1])]
    /\ registrations' = [id \in DOMAIN registrations |->
                            IF id = pk
                            THEN [registrations[id] EXCEPT !.document = None]
                            ELSE registrations[id]]
    /\ UNCHANGED <<events, nextId, now, inflight, accounts, event_results,
                 event_result_images>>

\* DELETE /api/registrations/<pk>/delete-image-file/: 404 when the
\* registration does not exist or holds no document, otherwise an
\* acknowledgement carrying the document's size; nothing is written.
DeleteImageFile(pk) ==
    /\ response' =
          IF pk \notin DOMAIN registrations \/ NoDocument(registrations[pk])
          THEN [NoResponse EXCEPT !.op = "delete_image_file", !.status = "404",
                                  !.id = pk]
          ELSE [NoResponse EXCEPT !.op = "delete_image_file", !.id = pk,
                                  !.size = Len(registrations[pk].document[1])]
    /\ UNCHANGED <<events, registrations, nextId, now, inflight, accounts, event_results,
                 event_result_images>>

----------------------------------------------------------------------------
\* views.py: events by lifecycle

\* The upcoming filter leaving out the events whose last day is today.
UpcomingQ_strict(event) ==
    \/ (event.event_to # None /\ event.event_to[1] > Today)
    \/ (event.event_to = None /\ event.event_from > Today)

\* The upcoming filter without its branch for events that have no event_to.
UpcomingQ_event_to_only(event) ==
    Truthy(event.event_to) /\ event.event_to[1] >= Today

\* Q(event_to__gte=today) | Q(event_to__isnull=True, event_from__gte=today);
\* a comparison with NULL selects nothing.
UpcomingQ(event) ==
    \/ (event.event_to # None /\ event.event_to[1] >= Today)
    \/ (event.event_to = None /\ event.event_from >= Today)

\* The completed filter counting the last day of an event as ended.
CompletedQ_inclusive(event) ==
    \/ (event.event_to # None /\ event.event_to[1] <= Today)
    \/ (event.event_to = None /\ event.event_from <= Today)

\* Q(event_to__lt=today) | Q(event_to__isnull=True, event_from__lt=today)
CompletedQ(event) ==
    \/ (event.event_to # None /\ event.event_to[1] < Today)
    \/ (event.event_to = None /\ event.event_from < Today)

\* order_by('created_at'), oldest first.
CreatedAtDesc_ascending(a, b) == events[a].created_at <= events[b].created_at

\* order_by('-created_at'): whether row a may come before row b.
CreatedAtDesc(a, b) == events[a].created_at >= events[b].created_at

\* ORDER BY event_to DESC on one pair; where NULL sorts depends on the
\* database (last on SQLite and MySQL, first on PostgreSQL).
EventToDesc(a, b, nullsLast) ==
    CASE a # None /\ b # None -> a[1] >= b[1]
      [] a = None /\ b = None -> TRUE
      [] a # None /\ b = None -> nullsLast
      [] OTHER -> ~nullsLast

\* The completed ordering by event_to alone.
CompletedOrder_event_to_first(a, b, nullsLast) ==
    EventToDesc(events[a].event_to, events[b].event_to, nullsLast)

\* order_by('-event_from', '-event_to'): whether row a may come before row b.
CompletedOrder(a, b, nullsLast) ==
    \/ events[a].event_from > events[b].event_from
    \/ /\ events[a].event_from = events[b].event_from
       /\ EventToDesc(events[a].event_to, events[b].event_to, nullsLast)

\* get_queryset testing the completed flag before the upcoming flag.
EventViewSet_get_queryset_completed_first(upcoming, completed) ==
    IF completed THEN
        LET ids == {e \in DOMAIN events : CompletedQ(events[e])} IN
        UNION {{s \in Orderings(ids) :
                  \A i, j \in 1..Cardinality(ids) :
                      i < j => CompletedOrder(s[i], s[j], nullsLast)}
               : nullsLast \in BOOLEAN}
    ELSE IF upcoming THEN
        LET ids == {e \in DOMAIN events : UpcomingQ(events[e])} IN
        {s \in Orderings(ids) :
            \A i, j \in 1..Cardinality(ids) : i < j => CreatedAtDesc(s[i], s[j])}
    ELSE
        {s \in Orderings(DOMAIN events) :
            \A i, j \in 1..Cardinality(DOMAIN events) :
                i < j => CreatedAtDesc(s[i], s[j])}

\* EventViewSet.get_queryset: the orders of rows the query may return.
EventViewSet_get_queryset(upcoming, completed) ==
    IF upcoming THEN
        LET ids == {e \in DOMAIN events : UpcomingQ(events[e])} IN
        {s \in Orderings(ids) :
            \A i, j \in 1..Cardinality(ids) : i < j => CreatedAtDesc(s[i], s[j])}
    ELSE IF completed THEN
        LET ids == {e \in DOMAIN events : CompletedQ(events[e])} IN
        UNION {{s \in Orderings(ids) :
                  \A i, j \in 1..Cardinality(ids) :
                      i < j => CompletedOrder(s[i], s[j], nullsLast)}
               : nullsLast \in BOOLEAN}
    ELSE
        {s \in Orderings(DOMAIN events) :
            \A i, j \in 1..Cardinality(DOMAIN events) :
                i < j => CreatedAtDesc(s[i], s[j])}

\* A listing that also purges the ended events from the table.
ListEvents_purging(upcoming, completed) ==
    /\ \E rows \in EventViewSet_get_queryset(upcoming, completed) :
         response' = [NoResponse EXCEPT !.op = "list_events",
                                        !.upcoming = upcoming,
                                        !.completed = completed,
                                        !.rows = rows]
    /\ events' = [e \in {x \in DOMAIN events : ~CompletedQ(events[x])} |-> events[e]]
    /\ UNCHANGED <<registrations, nextId, now, inflight, accounts, event_results,
                 event_result_images>>

\* GET /api/events/?upcoming=..&completed=..
ListEvents(upcoming, completed) ==
    /\ \E rows \in EventViewSet_get_queryset(upcoming, completed) :
         response' = [NoResponse EXCEPT !.op = "list_events",
                                        !.upcoming = upcoming,
                                        !.completed = completed,
                                        !.rows = rows]
    /\ UNCHANGED <<events, registrations, nextId, now, inflight, accounts, event_results,
                 event_result_images>>

\* A caller evaluates Event.is_ended() and Event.is_upcoming() on a stored
\* event.
CheckLifecycle(id) ==
    /\ id \in DOMAIN events
    /\ response' = [NoResponse EXCEPT !.op = "check_lifecycle",
                                      !.id = id,
                                      !.ended = is_ended(events[id]),
                                      !.is_upcoming = is_upcoming(events[id])]
    /\ UNCHANGED <<events, registrations, nextId, now, inflight, accounts, event_results,
                 event_result_images>>

----------------------------------------------------------------------------
\* views.py: removing the ended events

\* The cleanup filter without its branch for events that have no event_to.
CleanupEndedQ_event_to_only(event) ==
    event.event_to # None /\ event.event_to[1] < Today

\* Q(event_to__lt=today) | Q(event_to__isnull=True, event_from__lt=today)
CleanupEndedQ(event) ==
    \/ (event.event_to # None /\ event.event_to[1] < Today)
    \/ (event.event_to = None /\ event.event_from < Today)

\* CleanupEndedEventsView.delete: the ended events are counted, their ids
\* listed (Event.Meta.ordering is -created_at) and the rows deleted. With
\* delete_registrations=true the handler runs `pass`: the deletion of
\* registrations is commented out, and the flag is only echoed.
CleanupEndedEvents(delete_registrations) ==
    LET ended_events == {e \in DOMAIN events : CleanupEndedQ(events[e])} IN
    /\ \E event_ids \in {s \in Orderings(ended_events) :
                            \A i, j \in 1..Cardinality(ended_events) :
                                i < j => CreatedAtDesc(s[i], s[j])} :
          response' = [NoResponse EXCEPT
                          !.op = "cleanup_ended",
                          !.count = Cardinality(ended_events),
                          !.deleted_event_ids = event_ids,
                          !.delete_registrations = delete_registrations]
    /\ events' = [e \in DOMAIN events \ ended_events |-> events[e]]
    /\ UNCHANGED <<registrations, nextId, now, inflight, accounts, event_results,
                 event_result_images>>

\* The cleanup handled query by query. ended_events is a lazy queryset:
\* count(), list(values_list('id')) and delete() are three queries, each
\* evaluated against the table as it is when the query runs, with the
\* `today` the handler read once at its start. No transaction is opened.

\* The cleanup filter for a given value of the handler's local `today`.
ended_events(today) ==
    {e \in DOMAIN events :
        \/ (events[e].event_to # None /\ events[e].event_to[1] < today)
        \/ (events[e].event_to = None /\ events[e].event_from < today)}

\* The request reaches the handler, which reads the date and builds the
\* queryset.
StartCleanup(r, delete_registrations) ==
    /\ inflight[r].pc = "idle"
    /\ inflight' = [inflight EXCEPT ![r] =
                       [IdleRequest EXCEPT
                           !.pc = "count", !.op = "cleanup_ended",
                           !.today = Today,
                           !.delete_registrations = delete_registrations]]
    /\ UNCHANGED <<events, registrations, nextId, now, response, accounts,
                   event_results, event_result_images>>

\* event_count = ended_events.count()
CountStep(r) ==
    LET req == inflight[r] IN
    /\ req.pc = "count"
    /\ inflight' = [inflight EXCEPT ![r] =
                       [req EXCEPT !.pc = "ids",
                                   !.event_count =
                                       Cardinality(ended_events(req.today))]]
    /\ UNCHANGED <<events, registrations, nextId, now, response, accounts,
                   event_results, event_result_images>>

\* event_ids = list(ended_events.values_list('id', flat=True))
IdsStep(r) ==
    LET req   == inflight[r]
        ended == ended_events(req.today)
    IN  /\ req.pc = "ids"
        /\ \E event_ids \in {s \in Orderings(ended) :
                                \A i, j \in 1..Cardinality(ended) :
                                    i < j => CreatedAtDesc(s[i], s[j])} :
              inflight' = [inflight EXCEPT ![r] =
                              [req EXCEPT !.pc = "delete",
                                          !.event_ids = event_ids]]
        /\ UNCHANGED <<events, registrations, nextId, now, response, accounts,
                       event_results, event_result_images>>

\* ended_events.delete() and the response built from the two values read
\* earlier.
DeleteStep(r) ==
    LET req == inflight[r] IN
    /\ req.pc = "delete"
    /\ events' = [e \in DOMAIN events \ ended_events(req.today) |-> events[e]]
    /\ response' = [NoResponse EXCEPT
                       !.op = "cleanup_ended",
                       !.count = req.event_count,
                       !.deleted_event_ids = req.event_ids,
                       !.delete_registrations = req.delete_registrations,
                       !.request = r]
    /\ inflight' = [inflight EXCEPT ![r] = IdleRequest]
    /\ UNCHANGED <<registrations, nextId, now, accounts, event_results,
                   event_result_images>>

----------------------------------------------------------------------------
\* Specifications

\* Event lifecycle: events are created with every combination of event
\* dates; their registration dates, which no lifecycle operation reads, are
\* fixed, and the clock moves by whole days.
NextLifecycle ==
    \/ \E event_from \in Days, event_to \in OptDays :
          CreateEvent(StateOpen, 0, 0, event_from, event_to)
    \/ AdvanceClock((Today + 1) * TicksPerDay)
    \/ \E upcoming, completed \in BOOLEAN : ListEvents(upcoming, completed)
    \/ \E id \in 1..MaxEvents : CheckLifecycle(id)

SpecLifecycle == Init /\ [][NextLifecycle]_vars

\* Registration windows: events are created with every combination of the
\* dates the window reads (registration_to, which it does not read, equals
\* registration_from), registrations are created at every instant of the
\* days an event can carry.
NextWindow ==
    \/ /\ nextId.event <= MaxWindowEvents
       /\ \E registration_from \in Days, event_from \in Days, event_to \in OptDays :
             CreateEvent(StateOpen, registration_from, registration_from, event_from, event_to)
    \/ CreateRegistration(BlankRegistration, None)
    \/ /\ DateOf(now + 1) \in Days
       /\ AdvanceClock(now + 1)
    \/ \E event_id \in EventIdParams : ListRegistrations(event_id)
    \/ \E event_id \in EventIdParams : ExportRegistrationsCsv(event_id)
    \/ \E upcoming, completed \in BOOLEAN : ListEvents(upcoming, completed)

SpecWindow == Init /\ [][NextWindow]_vars

\* Event create and update through the API with every combination of the
\* four dates; the clock stands still.
NextEventCrud ==
    \/ \E registration_from, registration_to, event_from \in Days,
          event_to \in OptDays :
          CreateEvent(StateOpen, registration_from, registration_to, event_from, event_to)
    \/ \E id \in 1..MaxEvents,
          registration_from, registration_to, event_from \in Days,
          event_to \in OptDays :
          UpdateEvent(id, registration_from, registration_to, event_from, event_to)

SpecEventCrud == Init /\ [][NextEventCrud]_vars

\* Registrations with their fields and documents, exported and downloaded;
\* no events.
NextRegistrations ==
    \/ \E data \in RegistrationInputs, file \in UploadParams :
          CreateRegistration(data, file)
    \/ \E id \in 1..MaxRegs, file \in UploadParams : UpdateRegistration(id, file)
    \/ /\ DateOf(now + 1) \in Days
       /\ AdvanceClock(now + 1)
    \/ ExportRegistrationsCsv(NoParam)
    \/ \E pk \in 1..MaxRegs : DownloadImage(pk)
    \/ \E pk \in 1..MaxRegs : DeleteImageFile(pk)

SpecRegistrations == Init /\ [][NextRegistrations]_vars

\* Events opening for registration on day 0, registrations, the clock
\* moving by whole days, and the removal of ended events.
NextCleanup ==
    \/ \E event_from \in Days, event_to \in OptDays :
          CreateEvent(StateOpen, 0, 0, event_from, event_to)
    \/ CreateRegistration(BlankRegistration, None)
    \/ AdvanceClock((Today + 1) * TicksPerDay)
    \/ \E delete_registrations \in BOOLEAN : CleanupEndedEvents(delete_registrations)

SpecCleanup == Init /\ [][NextCleanup]_vars

\* Admin accounts created, their passwords changed, and logins with every
\* combination of credentials.
NextLogin ==
    \/ \E username \in Usernames, raw_password \in RawPasswords, salt \in Salts :
          CreateAdminAccount(username, raw_password, salt)
    \/ \E id \in 1..MaxAccounts, raw_password \in RawPasswords, salt \in Salts :
          SetPassword(id, raw_password, salt)
    \/ /\ DateOf(now + 1) \in Days
       /\ AdvanceClock(now + 1)
    \/ \E username \in LoginUsernames, password \in LoginPasswords :
          Login(username, password)

SpecLogin == Init /\ [][NextLogin]_vars

\* Event results created with every set of upload keys, and deleted.
NextEventResults ==
    \/ \E files \in SUBSET UploadKeys : CreateEventResult(SampleResult, files)
    \/ \E id \in 1..MaxResults : DeleteEventResult(id)

SpecEventResults == Init /\ [][NextEventResults]_vars

\* One export at a time handled query by query while events are created and
\* deleted by other requests; every event has the window of day 0 and the
\* clock moves by whole days.
NextExportRace ==
    \/ CreateEvent(StateOpen, 0, 0, 0, None)
    \/ \E id \in 1..MaxEvents : DeleteEvent(id)
    \/ /\ AllIdle
       /\ AdvanceClock((Today + 1) * TicksPerDay)
    \/ CreateRegistration(BlankRegistration, None)
    \/ \E id \in 1..MaxEvents :
          StartRequest(1, "export_csv", [kind |-> "int", n |-> id])
    \/ \E r \in 1..MaxRequests : LookupStep(r)
    \/ \E r \in 1..MaxRequests : FilenameStep(r)
    \/ \E r \in 1..MaxRequests : RowsStep(r)

SpecExportRace == Init /\ [][NextExportRace]_vars

\* One cleanup at a time handled query by query while other requests create
\* events, move their event_from and delete them; the clock moves by whole
\* days between cleanups.
NextCleanupRace ==
    \/ \E event_from \in Days : CreateEvent(StateOpen, 0, 0, event_from, None)
    \/ \E id \in 1..MaxEvents, event_from \in Days :
          UpdateEvent(id, 0, 0, event_from, None)
    \/ \E id \in 1..MaxEvents : DeleteEvent(id)
    \/ /\ AllIdle
       /\ AdvanceClock((Today + 1) * TicksPerDay)
    \/ \E delete_registrations \in BOOLEAN : StartCleanup(1, delete_registrations)
    \/ \E r \in 1..MaxRequests : CountStep(r)
    \/ \E r \in 1..MaxRequests : IdsStep(r)
    \/ \E r \in 1..MaxRequests : DeleteStep(r)

SpecCleanupRace == Init /\ [][NextCleanupRace]_vars

\* Two requests, each for its own event, handled query by query in any
\* interleaving. The events are set up on day 0, each with a window of one
\* day, and nothing is written while a request is in progress.
NextConcurrent ==
    \/ /\ AllIdle
       /\ now = 0
       /\ \E day \in Days : CreateEvent(StateOpen, day, day, day, None)
    \/ /\ AllIdle
       /\ CreateRegistration(BlankRegistration, None)
    \/ /\ AllIdle
       /\ AdvanceClock((Today + 1) * TicksPerDay)
    \/ \E r \in 1..MaxRequests, op \in {"export_csv", "list_registrations"} :
          StartRequest(r, op, [kind |-> "int", n |-> r])
    \/ \E r \in 1..MaxRequests : LookupStep(r)
    \/ \E r \in 1..MaxRequests : FilenameStep(r)
    \/ \E r \in 1..MaxRequests : RowsStep(r)

SpecConcurrent == Init /\ [][NextConcurrent]_vars

----------------------------------------------------------------------------
\* Properties

\* The rows of a response, as a set.
RowSet == {response.rows[i] : i \in 1..Len(response.rows)}

\* The date on which the specification lets an event end: event_to, or
\* event_from when there is no event_to.
BoundaryDate(event) ==
    IF event.event_to # None THEN event.event_to[1] ELSE event.event_from

\* C1: is_ended is event_to < today when event_to is present and
\* event_from < today when it is absent: false on the boundary date itself,
\* true on the following day.
C1_IsEndedRule ==
    response.op = "check_lifecycle" =>
        LET event == events[response.id] IN
        /\ event.event_to # None => (response.ended <=> event.event_to[1] < Today)
        /\ event.event_to = None => (response.ended <=> event.event_from < Today)
        /\ Today = BoundaryDate(event) => ~response.ended
        /\ Today = BoundaryDate(event) + 1 => response.ended

\* An event without event_to is checked on its event_from day, and has not
\* ended.
C1_Witness ==
    /\ response.op = "check_lifecycle"
    /\ events[response.id].event_to = None
    /\ events[response.id].event_from = Today
    /\ ~response.ended

\* C2: for every event, with or without event_to, and every date, exactly
\* one of is_upcoming and is_ended holds.
C2_Partition ==
    response.op = "check_lifecycle" =>
        /\ response.is_upcoming \/ response.ended
        /\ ~(response.is_upcoming /\ response.ended)

\* An event without event_to that has not started yet is upcoming.
C2_Witness ==
    /\ response.op = "check_lifecycle"
    /\ events[response.id].event_to = None
    /\ events[response.id].event_from > Today
    /\ response.is_upcoming

\* C3: in the listing and in the CSV export alike, the window of a stored
\* event starts at registration_from and ends at event_to when event_to is
\* present, at event_from otherwise.
C3_WindowDates ==
    (/\ response.op \in {"list_registrations", "export_csv"}
     /\ response.event_id.kind = "int"
     /\ response.event_id.n \in DOMAIN events) =>
        LET event == events[response.event_id.n] IN
        /\ Len(response.dates) = 2
        /\ response.dates[1] = event.registration_from
        /\ event.event_to # None => response.dates[2] = event.event_to[1]
        /\ event.event_to = None => response.dates[2] = event.event_from

\* The export is scoped by an event whose event_to is present and differs
\* from its event_from.
C3_Witness ==
    /\ response.op = "export_csv"
    /\ response.event_id.kind = "int"
    /\ response.event_id.n \in DOMAIN events
    /\ events[response.event_id.n].event_to # None
    /\ events[response.event_id.n].event_to[1] # events[response.event_id.n].event_from
    /\ response.dates[2] = events[response.event_id.n].event_to[1]

\* C4: filtering by an event's window keeps exactly the registrations
\* created in [start 00:00:00, end 23:59:59.999999]: one created at start
\* 00:00:00 or in the last instant of end is kept, one created at
\* (end + 1 day) 00:00:00 or before start 00:00:00 is dropped.
C4_ClosedWindow ==
    (/\ response.op = "list_registrations"
     /\ response.event_id.kind = "int"
     /\ response.event_id.n \in DOMAIN events) =>
        LET event == events[response.event_id.n]
            start == event.registration_from
            end   == BoundaryDate(event)
        IN  /\ response.status = "ok"
            /\ DateOf(response.bounds[1]) = start
            /\ TimeOf(response.bounds[1]) = "00:00:00.000000"
            /\ DateOf(response.bounds[2]) = end
            /\ TimeOf(response.bounds[2]) = "23:59:59.999999"
            /\ \A r \in DOMAIN registrations :
                  LET at == registrations[r].created_at IN
                  /\ r \in RowSet <=> (DateOf(at) >= start /\ DateOf(at) <= end)
                  /\ (at = end * TicksPerDay + LastTick /\ start <= end) => r \in RowSet
                  /\ (at = start * TicksPerDay /\ start <= end) => r \in RowSet
                  /\ at = (end + 1) * TicksPerDay => r \notin RowSet
                  /\ at < start * TicksPerDay => r \notin RowSet

\* One registration created in the last instant of the window's end is
\* listed, another created at 00:00:00 of the next day is not.
C4_Witness ==
    /\ response.op = "list_registrations"
    /\ response.event_id.kind = "int"
    /\ response.event_id.n \in DOMAIN events
    /\ LET end == BoundaryDate(events[response.event_id.n]) IN
       \E r1, r2 \in DOMAIN registrations :
          /\ registrations[r1].created_at = end * TicksPerDay + LastTick
          /\ registrations[r2].created_at = (end + 1) * TicksPerDay
          /\ r1 \in RowSet
          /\ r2 \notin RowSet

\* C5: listing with an event identifier that matches no stored event gives
\* the full unfiltered collection, not an empty set and not an error.
C5_UnknownEventUnfiltered ==
    (/\ response.op = "list_registrations"
     /\ response.event_id.kind # "absent"
     /\ ~(response.event_id.kind = "int" /\ response.event_id.n \in DOMAIN events)) =>
        /\ response.status = "ok"
        /\ RowSet = DOMAIN registrations

\* C7: for every store and every event identifier the CSV export holds the
\* registrations the listing selects for that identifier, one row each,
\* newest created_at first.
C7_ExportMatchesListing ==
    response.op = "export_csv" =>
        LET listed == RegistrationViewSet_get_queryset(response.event_id) IN
        /\ response.status = listed.status
        /\ RowSet = listed.ids
        /\ Len(response.rows) = Cardinality(listed.ids)
        /\ \A i, j \in 1..Len(response.rows) :
              i < j => registrations[response.rows[i]].created_at
                         >= registrations[response.rows[j]].created_at

\* An export scoped by a stored event keeps one registration and drops
\* another.
C7_Witness ==
    /\ response.op = "export_csv"
    /\ response.event_id.kind = "int"
    /\ response.event_id.n \in DOMAIN events
    /\ Len(response.rows) >= 1
    /\ Len(response.rows) < Cardinality(DOMAIN registrations)

\* C8: the UPCOMING listing returns exactly the stored events for which
\* is_upcoming holds, events without event_to whose event_from is today or
\* later included, most recently created first.
C8_UpcomingListing ==
    (response.op = "list_events" /\ response.upcoming) =>
        /\ RowSet = {e \in DOMAIN events : is_upcoming(events[e])}
        /\ Len(response.rows) = Cardinality(RowSet)
        /\ \A e \in DOMAIN events :
              (events[e].event_to = None /\ events[e].event_from >= Today) => e \in RowSet
        /\ \A i, j \in 1..Len(response.rows) :
              i < j => events[response.rows[i]].created_at
                         >= events[response.rows[j]].created_at

\* Two upcoming events created at different times are listed, one of them
\* without event_to.
C8_Witness ==
    /\ response.op = "list_events"
    /\ response.upcoming
    /\ Len(response.rows) = 2
    /\ events[response.rows[1]].created_at > events[response.rows[2]].created_at
    /\ \E i \in 1..2 : events[response.rows[i]].event_to = None

\* C9: the COMPLETED listing returns exactly the stored events for which
\* is_ended holds, by descending event_from and, among equal event_from, by
\* descending event_to.
C9_CompletedListing ==
    (response.op = "list_events" /\ ~response.upcoming /\ response.completed) =>
        /\ RowSet = {e \in DOMAIN events : is_ended(events[e])}
        /\ Len(response.rows) = Cardinality(RowSet)
        /\ \A i, j \in 1..Len(response.rows) :
              i < j =>
                LET a == events[response.rows[i]]
                    b == events[response.rows[j]]
                IN  /\ a.event_from >= b.event_from
                    /\ (a.event_from = b.event_from /\ a.event_to # None /\ b.event_to # None)
                          => a.event_to[1] >= b.event_to[1]

\* Two completed events with the same event_from and different event_to are
\* listed.
C9_Witness ==
    /\ response.op = "list_events"
    /\ ~response.upcoming
    /\ response.completed
    /\ Len(response.rows) = 2
    /\ events[response.rows[1]].event_from = events[response.rows[2]].event_from
    /\ events[response.rows[1]].event_to # None
    /\ events[response.rows[2]].event_to # None
    /\ events[response.rows[1]].event_to[1] > events[response.rows[2]].event_to[1]

\* C10 as stated: in the COMPLETED listing, of any two events the one whose
\* end date (event_to, or event_from without event_to) is later comes first.
\* The pairs looked at are those of events that have an event_to, not before
\* their event_from: for them the order does not depend on where the
\* database sorts NULL, nor on dates the data model rules out.
C10_MostRecentlyEndedFirst ==
    (response.op = "list_events" /\ ~response.upcoming /\ response.completed) =>
        \A i, j \in 1..Len(response.rows) :
            LET a == events[response.rows[i]]
                b == events[response.rows[j]]
            IN  (/\ a.event_to # None /\ a.event_to[1] >= a.event_from
                 /\ b.event_to # None /\ b.event_to[1] >= b.event_from
                 /\ BoundaryDate(a) > BoundaryDate(b)) => i < j

\* C10 as amended: in the COMPLETED listing, of any two events the one whose
\* event_from is later comes first; a later event_to puts an event first
\* only among events of the same event_from that both have an event_to.
C10_MostRecentlyStartedFirst ==
    (response.op = "list_events" /\ ~response.upcoming /\ response.completed) =>
        \A i, j \in 1..Len(response.rows) :
            LET a == events[response.rows[i]]
                b == events[response.rows[j]]
            IN  /\ a.event_from > b.event_from => i < j
                /\ (/\ a.event_from = b.event_from
                    /\ a.event_to # None
                    /\ b.event_to # None
                    /\ a.event_to[1] > b.event_to[1]) => i < j

\* A completed listing whose first event started later and ended earlier
\* than its second, both events having event_to >= event_from.
C10_Witness ==
    /\ response.op = "list_events"
    /\ ~response.upcoming
    /\ response.completed
    /\ Len(response.rows) = 2
    /\ events[response.rows[1]].event_from > events[response.rows[2]].event_from
    /\ BoundaryDate(events[response.rows[1]]) < BoundaryDate(events[response.rows[2]])
    /\ \A i \in 1..2 : BoundaryDate(events[response.rows[i]]) >= events[response.rows[i]].event_from

\* C11: the listing with no mode flag returns every stored event, none
\* filtered out, most recently created first.
C11_AllListing ==
    (response.op = "list_events" /\ ~response.upcoming /\ ~response.completed) =>
        /\ RowSet = DOMAIN events
        /\ Len(response.rows) = Cardinality(DOMAIN events)
        /\ \A i, j \in 1..Len(response.rows) :
              i < j => events[response.rows[i]].created_at
                         >= events[response.rows[j]].created_at

\* The unfiltered listing holds an ended and an upcoming event, the one
\* created later first.
C11_Witness ==
    /\ response.op = "list_events"
    /\ ~response.upcoming
    /\ ~response.completed
    /\ Len(response.rows) = 2
    /\ events[response.rows[1]].created_at > events[response.rows[2]].created_at
    /\ \E i, j \in 1..2 : /\ is_ended(events[response.rows[i]])
                          /\ is_upcoming(events[response.rows[j]])

\* C12: after any sequence of event creates and updates every stored event
\* has registration_from <= registration_to, has an event_from, and has
\* event_to >= event_from whenever event_to is present.
C12_StoredEventsWellFormed ==
    \A e \in DOMAIN events :
        /\ events[e].registration_from <= events[e].registration_to
        /\ events[e].event_from \in Days
        /\ Truthy(events[e].event_to) =>
              events[e].event_to[1] >= events[e].event_from

\* C13: the read operations (listing registrations with or without
\* event_id, exporting them as CSV, listing events in any mode) leave the
\* stored events and registrations as they were.
C13_ReadsLeaveStore ==
    [][response'.op \in {"list_registrations", "export_csv", "list_events"} =>
          UNCHANGED <<events, registrations>>]_vars

\* A listing of completed events has answered with an ended event while a
\* registration is stored.
C13_Witness ==
    /\ response.op = "list_events"
    /\ response.completed
    /\ ~response.upcoming
    /\ Len(response.rows) >= 1
    /\ DOMAIN registrations # {}

\* C16: the CSV export writes the header and, for every exported
\* registration, one row of exactly 13 cells in the order ID, Name, Age, Date
\* of Birth, Gender, State, District, Level, Email, Phone Number, Address,
\* Document, Created At; the Document cell is "Yes" exactly when the
\* registration holds a non-empty document and "No" otherwise.
C16_CsvRows ==
    (response.op = "export_csv" /\ response.status = "ok") =>
        /\ Len(response.csv) = Len(response.rows) + 1
        /\ response.csv[1] =
              <<"ID", "Name", "Age", "Date of Birth", "Gender", "State",
                "District", "Level", "Email", "Phone Number", "Address",
                "Document", "Created At">>
        /\ \A i \in 1..Len(response.rows) :
              LET reg == registrations[response.rows[i]]
                  row == response.csv[i + 1]
              IN  /\ Len(row) = 13
                  /\ row[1] = ToString(response.rows[i])
                  /\ row[2] = reg.name
                  /\ (reg.age # None /\ reg.age[1] > 0) => row[3] = ToString(reg.age[1])
                  /\ reg.dob # None => row[4] = strftime_Ymd(reg.dob[1])
                  /\ <<row[5], row[6], row[7], row[8], row[9], row[10], row[11]>>
                        = <<reg.gender, reg.state, reg.district, reg.level,
                            reg.email, reg.phone_no, reg.address>>
                  /\ row[12] \in {"Yes", "No"}
                  /\ row[12] = "Yes" <=>
                        (reg.document # None /\ Len(reg.document[1]) > 0)
                  /\ row[13] = strftime_Ymd(DateOf(reg.created_at)) \o " "
                                  \o strftime_HMS(reg.created_at)

\* An export has written a row for a registration holding an image and a row
\* for one holding empty bytes, with every field of the first filled in.
C16_Witness ==
    /\ response.op = "export_csv"
    /\ response.status = "ok"
    /\ \E i, j \in 1..Len(response.rows) :
          /\ registrations[response.rows[i]].document = Some("JPEG")
          /\ registrations[response.rows[i]].gender = "male"
          /\ response.csv[i + 1][12] = "Yes"
          /\ registrations[response.rows[j]].document = Some("")
          /\ response.csv[j + 1][12] = "No"

\* C17: in the CSV export every missing scalar field of a registration is
\* written as the empty string and never as a null marker; a registration
\* without dob has an empty Date of Birth cell.
C17_MissingFieldsEmpty ==
    (response.op = "export_csv" /\ response.status = "ok") =>
        \A i \in 1..Len(response.rows) :
            LET reg == registrations[response.rows[i]]
                row == response.csv[i + 1]
            IN  /\ reg.age = None => row[3] = ""
                /\ reg.dob = None => row[4] = ""
                /\ reg.gender = "" => row[5] = ""
                /\ reg.state = "" => row[6] = ""
                /\ reg.district = "" => row[7] = ""
                /\ reg.level = "" => row[8] = ""
                /\ reg.email = "" => row[9] = ""
                /\ reg.phone_no = "" => row[10] = ""
                /\ reg.address = "" => row[11] = ""
                /\ \A c \in 1..Len(row) : row[c] \notin {"None", "null", "NULL"}

\* An export has written the row of a registration that has no age, no dob
\* and blank texts.
C17_Witness ==
    /\ response.op = "export_csv"
    /\ response.status = "ok"
    /\ \E i \in 1..Len(response.rows) :
          /\ registrations[response.rows[i]].dob = None
          /\ registrations[response.rows[i]].age = None
          /\ registrations[response.rows[i]].address = ""
          /\ response.csv[i + 1][4] = ""

\* C18: delete-image-file never changes a stored document, whatever its
\* outcome, and download-image of a registration that holds a document
\* returns the stored bytes, so a download after any number of deletes
\* returns the same bytes.
C18_SoftDelete ==
    [][/\ response'.op = "delete_image_file" => registrations' = registrations
       /\ (/\ response'.op = "download_image"
           /\ response'.id \in DOMAIN registrations
           /\ registrations[response'.id].document # None
           /\ registrations[response'.id].document[1] # "")
          => /\ response'.status = "ok"
             /\ response'.body = registrations[response'.id].document[1]
             /\ registrations' = registrations]_vars

\* A delete has been acknowledged for a registration that still holds its
\* image.
C18_Witness ==
    /\ response.op = "delete_image_file"
    /\ response.status = "ok"
    /\ response.id \in DOMAIN registrations
    /\ registrations[response.id].document = Some("JPEG")
    /\ response.size = 4

\* C19: cleanup-ended deletes all the ended events and only those: when it
\* returns no stored event is ended, and every event that was upcoming
\* before the call is still stored unchanged.
C19_CleanupDeletesExactlyEnded ==
    [][response'.op = "cleanup_ended" =>
          /\ now' = now
          /\ DOMAIN events' \subseteq DOMAIN events
          /\ \A e \in DOMAIN events' : ~is_ended(events'[e])
          /\ \A e \in DOMAIN events :
                /\ is_ended(events[e]) => e \notin DOMAIN events'
                /\ is_upcoming(events[e]) =>
                      (e \in DOMAIN events' /\ events'[e] = events[e])]_vars

\* A cleanup has deleted an ended event and left an upcoming one stored.
C19_Witness ==
    /\ response.op = "cleanup_ended"
    /\ response.count >= 1
    /\ \E e \in DOMAIN events : is_upcoming(events[e])

\* C20: cleanup-ended with delete_registrations=true deletes the
\* registrations associated with the ended events (those created inside
\* their windows) along with the events; with the flag false or absent it
\* deletes no registration.
C20_CleanupDeletesRegistrations ==
    [][response'.op = "cleanup_ended" =>
          IF response'.delete_registrations
          THEN \A e \in DOMAIN events : \A r \in ScopedRegistrations(events[e]).ids :
                  is_ended(events[e]) => r \notin DOMAIN registrations'
          ELSE registrations' = registrations]_vars

\* The response of a request handled query by query is one the same request
\* gives when handled alone on the store as it is.
SameAsAlone ==
    response.request # 0 =>
        LET q == IF response.op = "export_csv"
                 THEN ExportRegistrationsCsvView_rows(response.event_id)
                 ELSE RegistrationViewSet_get_queryset(response.event_id)
        IN  /\ response.status = q.status
            /\ response.rows \in NewestFirst(q.ids)
            /\ response.dates = q.dates
            /\ response.bounds = q.bounds
            /\ response.op = "export_csv" =>
                  /\ response.csv = CsvTable(response.rows)
                  /\ response.filename = ExportFilename(response.event_id)

\* C14: two export or listing requests for different events whose queries
\* interleave in any order each return what they return when run alone on
\* the same store, and no step of one changes the tables or the other
\* request's local state.
C14_ConcurrentReads ==
    [][/\ inflight' # inflight =>
             /\ UNCHANGED <<events, registrations, nextId>>
             /\ Cardinality({r \in 1..MaxRequests : inflight'[r] # inflight[r]}) = 1
       /\ SameAsAlone']_vars

\* An export for one event has returned rows filtered to its window while a
\* request for another stored event, with another window, is between its
\* lookup and its last query.
C14_Witness ==
    /\ response.request # 0
    /\ response.op = "export_csv"
    /\ Len(response.rows) = 1
    /\ Cardinality(DOMAIN registrations) = 2
    /\ \E o \in 1..MaxRequests :
          /\ o # response.request
          /\ inflight[o].pc = "rows"
          /\ inflight[o].scoped
          /\ inflight[o].bounds # response.bounds

Range(rows) == {rows[i] : i \in 1..Len(rows)}

\* The listings a mode can give on the store as it is today: the one just
\* returned when the response is of that mode, otherwise every one the query
\* may return.
Listed(upcoming, completed) ==
    IF response.upcoming = upcoming /\ response.completed = completed
    THEN {response.rows}
    ELSE EventViewSet_get_queryset(upcoming, completed)

\* C22: for a fixed today and store, the UPCOMING listing and the COMPLETED
\* listing are disjoint and their union is exactly the ALL listing: every
\* stored event, with or without event_to, is in exactly one of the two.
C22_ListingsPartition ==
    response.op = "list_events" =>
        \A u \in Listed(TRUE, FALSE), c \in Listed(FALSE, TRUE),
           a \in Listed(FALSE, FALSE) :
            /\ Range(u) \cap Range(c) = {}
            /\ Range(u) \cup Range(c) = Range(a)
            /\ Range(a) = DOMAIN events

\* A COMPLETED listing has returned one of two stored events; the other one
\* ends today, and one of the two has no event_to.
C22_Witness ==
    /\ response.op = "list_events"
    /\ response.completed
    /\ ~response.upcoming
    /\ Len(response.rows) = 1
    /\ Cardinality(DOMAIN events) = 2
    /\ \E e \in DOMAIN events : BoundaryDate(events[e]) = Today
    /\ \E e \in DOMAIN events : events[e].event_to = None

\* C25: a list request carrying both upcoming=true and completed=true is
\* answered like the UPCOMING listing, and no ended event is returned.
C25_UpcomingWins ==
    (response.op = "list_events" /\ response.upcoming /\ response.completed) =>
        /\ response.rows \in EventViewSet_get_queryset(TRUE, FALSE)
        /\ RowSet = {e \in DOMAIN events : ~is_ended(events[e])}
        /\ \A i, j \in 1..Len(response.rows) :
              i < j => events[response.rows[i]].created_at
                         >= events[response.rows[j]].created_at

\* A request with both flags has returned the one upcoming event of a store
\* that also holds an ended event.
C25_Witness ==
    /\ response.op = "list_events"
    /\ response.upcoming
    /\ response.completed
    /\ Len(response.rows) = 1
    /\ \E e \in DOMAIN events : is_ended(events[e])

\* C28: in the CSV export a scalar field that is present is written as its
\* value: the Age cell is empty only when the age is unset, so a registration
\* with age 0 has the Age cell "0".
C28_AgeCellIsValue ==
    (response.op = "export_csv" /\ response.status = "ok") =>
        \A i \in 1..Len(response.rows) :
            LET reg == registrations[response.rows[i]]
                row == response.csv[i + 1]
            IN  /\ row[3] = "" <=> reg.age = None
                /\ reg.age # None => row[3] = ToString(reg.age[1])

\* C26: an update without an uploaded file leaves the stored document as it
\* was; an update with an uploaded file replaces it by the file's bytes, an
\* empty file included; a create with an empty file leaves the document
\* unset. Nothing else of the table changes in an update.
C26_DocumentOnWrite ==
    [][/\ (response'.op = "update_registration" /\ response'.status = "ok") =>
             /\ DOMAIN registrations' = DOMAIN registrations
             /\ \A id \in DOMAIN registrations :
                   registrations'[id] =
                       IF id = response'.id /\ response'.file # None
                       THEN [registrations[id] EXCEPT !.document = response'.file]
                       ELSE registrations[id]
       /\ response'.op = "create_registration" =>
             /\ response'.id \notin DOMAIN registrations
             /\ registrations'[response'.id].document =
                   IF response'.file = None \/ response'.file = Some("")
                   THEN None ELSE response'.file]_vars

\* An update carrying an empty file has replaced the stored document by empty
\* bytes.
C26_Witness ==
    /\ response.op = "update_registration"
    /\ response.status = "ok"
    /\ response.file = Some("")
    /\ registrations[response.id].document = Some("")

\* C21: login returns a token only when an account with the given username
\* is stored and the given password matches its stored hash; an unknown
\* username and a wrong password get the same 400 response with the error
\* "Invalid credentials"; and login never changes a stored account.
C21_Login ==
    [][response'.op = "login" =>
          LET valid == {a \in DOMAIN accounts :
                            /\ accounts[a].username = response'.username
                            /\ accounts[a].password.hash
                                  = <<accounts[a].password.salt, response'.password>>}
          IN  /\ accounts' = accounts
              /\ response'.token # <<>> =>
                    (response'.status = "200" /\ response'.token[1] \in valid)
              /\ (response'.username # "" /\ response'.password # "") =>
                    IF valid # {}
                    THEN response'.token # <<>>
                    ELSE /\ response'.status = "400"
                         /\ response'.error = "Invalid credentials"
                         /\ response'.token = <<>>]_vars

\* A login naming a stored account with a password other than the one its
\* hash was made from has been refused with "Invalid credentials", while
\* another account is stored too.
C21_Witness ==
    /\ response.op = "login"
    /\ response.status = "400"
    /\ response.error = "Invalid credentials"
    /\ \E a \in DOMAIN accounts :
          /\ accounts[a].username = response.username
          /\ accounts[a].password.hash[2] # response.password
    /\ \E a \in DOMAIN accounts : accounts[a].username # response.username

\* C27: creating an event result is all-or-nothing: when the request carries
\* an upload key image_<suffix> whose suffix is no integer, the create fails
\* and leaves no EventResult and no EventResultImage; otherwise one image is
\* stored per image_<n> key, with image_order n.
C27_AllOrNothing ==
    [][response'.op = "create_event_result" =>
          LET image_keys == {k \in response'.files : Len(k) >= 2 /\ k[1] = "image"}
              numbers    == {n \in 0..MaxImageOrder :
                                <<"image", ToString(n)>> \in image_keys}
              added      == DOMAIN event_result_images' \ DOMAIN event_result_images
          IN  IF \E k \in image_keys : \A n \in 0..MaxImageOrder : k[2] # ToString(n)
              THEN /\ response'.status = "error"
                   /\ event_results' = event_results
                   /\ event_result_images' = event_result_images
              ELSE /\ response'.status = "201"
                   /\ DOMAIN event_results' = DOMAIN event_results \cup {response'.id}
                   /\ Cardinality(added) = Cardinality(numbers)
                   /\ \A n \in numbers : \E i \in added :
                         /\ event_result_images'[i].image_order = n
                         /\ event_result_images'[i].event_result = response'.id]_vars

\* C23: the export uses the file name registrations_<event_name>_<event_id>.csv
\* exactly when its rows were scoped by that event's window and the plain
\* name registrations.csv exactly when they are unfiltered, also when an
\* event delete or create for that id falls between the export's two event
\* lookups.
C23_FilenameMatchesScope ==
    (response.op = "export_csv" /\ response.status = "ok" /\ response.request # 0) =>
        IF response.bounds # <<>>
        THEN response.filename = "registrations_State_Open_"
                                    \o ToString(response.event_id.n) \o ".csv"
        ELSE response.filename = "registrations.csv"

\* C24: whenever the cleanup's delete query has run and the response is
\* built, the ids in deleted_event_ids are exactly the ids of the events
\* that query removed from the table, and the count in the message is their
\* number, whatever other requests did between the cleanup's queries.
C24_ReportMatchesRemoved ==
    [][\A r \in 1..MaxRequests :
          (inflight[r].pc = "delete" /\ inflight'[r].pc = "idle") =>
              LET removed == DOMAIN events \ DOMAIN events' IN
              /\ Range(response'.deleted_event_ids) = removed
              /\ response'.count = Cardinality(removed)]_vars

====
